---- MODULE Spec2Model ----
(***************************************************************************)
(* Model of the compositing pipeline of files/solar_snippet_v4.py:          *)
(* connected-component selection, patch extraction, pasting, and the batch  *)
(* loop of ImageProcessor.process_all_images.                               *)
(*                                                                          *)
(* Pixel grids are kept as sets of pairwise disjoint axis-aligned           *)
(* rectangles <<x0, y0, x1, y1>> (columns x0 <= x < x1, rows y0 <= y < y1), *)
(* so that the program's own constants (400x400 canvases, the 1500-pixel    *)
(* threshold, the [200, 10000] window) are kept at their real values.       *)
(* Arithmetic on coordinates is exact.  The inputs are masks whose          *)
(* components are rectangles, and the rotation jitter is drawn so that the  *)
(* rotation angle is a multiple of 90 degrees: for these Image.rotate is an *)
(* exact transpose and a bicubic resize of a constant patch is constant.    *)
(***************************************************************************)
EXTENDS Integers, Sequences, FiniteSets, TLC

VARIABLES
    pc,               \* position in process_all_images: "init", "loop", "done", "aborted"
    solar_images,     \* the working copy of solar_image_files (paths)
    solar_masks,      \* the working copy of solar_mask_files (paths)
    building_images,  \* the working copy of building_image_files (paths)
    building_masks,   \* the working copy of building_mask_files (paths)
    loops,            \* number_generated
    iter,             \* iterations of the for loop started so far
    counter,          \* counter for saving images/masks
    out_images,       \* stems written to output_image_dir by this run
    out_masks,        \* stems written to output_mask_dir by this run
    env,              \* the directory contents the processor was built from
    last,             \* what the last iteration did (history)
    hist,             \* per-pool history of the current refill cycle
    call,             \* the last direct call of a function of the module
    runA, runB        \* two runs of the batch under the same seed

vars == <<pc, solar_images, solar_masks, building_images, building_masks, loops,
          iter, counter, out_images, out_masks, env, last, hist, call, runA, runB>>

-----------------------------------------------------------------------------
(* Integers and rectangles *)

Min2(a, b) == IF a <= b THEN a ELSE b

Max2(a, b) == IF a >= b THEN a ELSE b

SetMin(S) == CHOOSE m \in S : \A n \in S : m <= n

SetMax(S) == CHOOSE m \in S : \A n \in S : m >= n

RECURSIVE SumOver(_, _)
SumOver(S, f) ==
    IF S = {} THEN 0
    ELSE LET e == CHOOSE x \in S : TRUE IN f[e] + SumOver(S \ {e}, f)

Area(r) == (r[3] - r[1]) * (r[4] - r[2])

NonEmpty(r) == r[1] < r[3] /\ r[2] < r[4]

Inter(r, s) == <<Max2(r[1], s[1]), Max2(r[2], s[2]), Min2(r[3], s[3]), Min2(r[4], s[4])>>

Shift(r, dx, dy) == <<r[1] + dx, r[2] + dy, r[3] + dx, r[4] + dy>>

\* The part of a pixel set that lies inside a box.
Clip(fg, box) == {q \in {Inter(r, box) : r \in fg} : NonEmpty(q)}

\* Number of pixels of a pixel set (its rectangles are pairwise disjoint).
Count(fg) == SumOver(fg, [r \in fg |-> Area(r)])

\* np.sum(mask == 255): the foreground pixels of a mask.
CountWhite(mask) == Count(mask.fg)

-----------------------------------------------------------------------------
(* scipy.ndimage.label with its default structuring element: two pixels    *)
(* belong to one component when they share an edge (4-connectivity).       *)

Overlap(a0, a1, b0, b1) == Max2(a0, b0) < Min2(a1, b1)

\* Adjacency with the full 3x3 structuring element: rectangles that share an
\* edge or only a corner.
Adjacent8(r, s) ==
    /\ r # s
    /\ r[1] <= s[3] /\ s[1] <= r[3]
    /\ r[2] <= s[4] /\ s[2] <= r[4]

Adjacent4(r, s) ==
    \/ (r[3] = s[1] \/ s[3] = r[1]) /\ Overlap(r[2], r[4], s[2], s[4])
    \/ (r[4] = s[2] \/ s[4] = r[2]) /\ Overlap(r[1], r[3], s[1], s[3])

RECURSIVE Grow(_, _)
Grow(seed, fg) ==
    LET nxt == seed \cup {r \in fg : \E s \in seed : Adjacent4(r, s)}
    IN IF nxt = seed THEN seed ELSE Grow(nxt, fg)

ComponentSet(fg) == {Grow({r}, fg) : r \in fg}

\* Position, in row-major scan order, of the first pixel of a component.
ScanKey(comp, w) ==
    LET ymin == SetMin({r[2] : r \in comp})
        xmin == SetMin({r[1] : r \in {q \in comp : q[2] = ymin}})
    IN ymin * w + xmin

\* mask_labeled, num_features = ndi.label(mask): the components in the order
\* in which the scan meets them; label k is element k.
ndi_label(mask) ==
    LET comps == ComponentSet(mask.fg)
        rank(c) == 1 + Cardinality({e \in comps : ScanKey(e, mask.w) < ScanKey(c, mask.w)})
    IN [k \in 1..Cardinality(comps) |-> CHOOSE c \in comps : rank(c) = k]

\* np.bincount(mask_labeled.flat)[1:]
patch_sizes(labeled) == [k \in 1..Len(labeled) |-> Count(labeled[k])]

\* An argmax that returns the last index holding the maximum.
ArgmaxLast(sizes) ==
    SetMax({k \in 1..Len(sizes) : \A j \in 1..Len(sizes) : sizes[j] <= sizes[k]})

\* np.argmax: the first index holding the maximum.
argmax(sizes) ==
    SetMin({k \in 1..Len(sizes) : \A j \in 1..Len(sizes) : sizes[j] <= sizes[k]})

\* Sum of the row (column) indices of the pixels of a component.
RowSum(comp) ==
    SumOver(comp, [r \in comp |-> (r[3] - r[1]) * (((r[2] + r[4] - 1) * (r[4] - r[2])) \div 2)])

ColSum(comp) ==
    SumOver(comp, [r \in comp |-> (r[4] - r[2]) * (((r[1] + r[3] - 1) * (r[3] - r[1])) \div 2)])

\* np.mean(np.column_stack(pixels), axis=0).astype(np.int32): (row, column).
Centroid(comp) == <<RowSum(comp) \div Count(comp), ColSum(comp) \div Count(comp)>>

\* (min column, min row, max column, max row), the maxima inclusive.
BoundingBox(comp) ==
    <<SetMin({r[1] : r \in comp}), SetMin({r[2] : r \in comp}),
      SetMax({r[3] : r \in comp}) - 1, SetMax({r[4] : r \in comp}) - 1>>

-----------------------------------------------------------------------------
(* find_largest_white_patch *)

\* largest_patch = np.argmax(patch_sizes) + 1, then the centre and the
\* bounding box of that component.
LargestPatch(labeled, largest_patch) ==
    [raised |-> "none", largest_patch |-> largest_patch,
     center |-> Centroid(labeled[largest_patch]),
     bounding_box |-> BoundingBox(labeled[largest_patch])]

\* np.argmax raises ValueError for the empty array of a mask without
\* components.
LargestOf(labeled) ==
    IF Len(labeled) = 0
    THEN [raised |-> "ValueError", largest_patch |-> 0,
          center |-> <<0, 0>>, bounding_box |-> <<0, 0, 0, 0>>]
    ELSE LargestPatch(labeled, argmax(patch_sizes(labeled)))

find_largest_white_patch(mask) == LargestOf(ndi_label(mask))

-----------------------------------------------------------------------------
(* find_random_white_patch *)

HalfCenter == 100

HalfBox == 30

\* valid_patches without the filter on min_pixel_count.
ValidPatchesUnfiltered(sizes, min_pixel_count) == [j \in 1..Len(sizes) |-> j]

\* np.where(patch_sizes >= min_pixel_count)[0], as labels in ascending order.
valid_patches(sizes, min_pixel_count) ==
    LET ok == {k \in 1..Len(sizes) : sizes[k] >= min_pixel_count}
    IN [j \in 1..Cardinality(ok) |->
          CHOOSE k \in ok : Cardinality({m \in ok : m < k}) = j - 1]

\* The branch taken when num_features <= 1: d.center holds the offsets of
\* the two random.randint draws above the lower ends of their ranges.
FallbackPatch(mask, d) ==
    LET center_start_x == (mask.w \div 2) - HalfCenter
        center_start_y == (mask.h \div 2) - HalfCenter
        cx == center_start_x + d.center[1]
        cy == center_start_y + d.center[2]
    IN [raised |-> "none",
        center |-> <<cx, cy>>,
        bounding_box |-> <<cx - HalfBox, cy - HalfBox, cx + HalfBox, cy + HalfBox>>]

\* The else branch: np.random.choice over the valid patches (d.pick selects
\* one; every valid patch has positive probability).  With no valid patch
\* np.random.choice is given an empty array and raises ValueError.
SelectedPatch(labeled, min_pixel_count, d) ==
    LET valid == valid_patches(patch_sizes(labeled), min_pixel_count)
    IN IF Len(valid) = 0
       THEN [raised |-> "ValueError", center |-> <<0, 0>>, bounding_box |-> <<0, 0, 0, 0>>]
       ELSE LET selected_patch == valid[(d.pick % Len(valid)) + 1]
            IN [raised |-> "none",
                center |-> Centroid(labeled[selected_patch]),
                bounding_box |-> BoundingBox(labeled[selected_patch])]

FallbackWhenAtMost == 1

find_random_white_patch(mask, min_pixel_count, d) ==
    LET mask_labeled == ndi_label(mask)
        num_features == Len(mask_labeled)
    IN IF num_features <= FallbackWhenAtMost
       THEN FallbackPatch(mask, d)
       ELSE SelectedPatch(mask_labeled, min_pixel_count, d)

-----------------------------------------------------------------------------
(* crop_solar_panel *)

\* Image.new("RGB", (1, 1)) and Image.new("1", (1, 1)): the placeholder the
\* except branch returns when the mask has no component (argmax of an empty
\* array raises).
EmptyPatch ==
    [image |-> [w |-> 1, h |-> 1, tone |-> "black", photo |-> {}],
     mask  |-> [w |-> 1, h |-> 1, fg |-> {}]]

\* The crop box is the bounding box with its inclusive maxima used as the
\* exclusive ends of image.crop and of the array slice.
CropBox(bounding_box) == bounding_box

\* The crop of the image and of the mask of the largest component.
CropTo(image, largest_cc, box) ==
    [image |-> [w |-> box[3] - box[1], h |-> box[4] - box[2], tone |-> image.base, photo |-> {}],
     mask  |-> [w |-> box[3] - box[1], h |-> box[4] - box[2],
                fg |-> {Shift(q, -box[1], -box[2]) : q \in Clip(largest_cc, box)}]]

LargestComponent(labeled_mask) == labeled_mask[argmax(patch_sizes(labeled_mask))]

CropLargest(image, largest_cc) == CropTo(image, largest_cc, CropBox(BoundingBox(largest_cc)))

CropLabeled(image, labeled_mask) ==
    IF Len(labeled_mask) = 0
    THEN EmptyPatch
    ELSE CropLargest(image, LargestComponent(labeled_mask))

crop_solar_panel(image, mask) == CropLabeled(image, ndi_label(mask))

-----------------------------------------------------------------------------
(* find_angle, in degrees.  regionprops_table treats the whole foreground  *)
(* as one region.  With no region props['orientation'] is empty, the index *)
(* raises IndexError and the except gives 0.  A rectangle has its major    *)
(* axis along its longer side (0 along the rows, 90 along the columns); a  *)
(* region whose two second moments are equal, a square or a single pixel,  *)
(* gets pi/4 from the library, which raises nothing for it.  Other shapes  *)
(* are not among the modelled inputs.                                      *)

find_angle(mask) ==
    CASE mask.fg = {}          -> 0
      [] Cardinality(mask.fg) = 1 ->
            LET r  == CHOOSE q \in mask.fg : TRUE
                rw == r[3] - r[1]
                rh == r[4] - r[2]
            IN IF rh > rw THEN 0 ELSE IF rw > rh THEN 90 ELSE 45

-----------------------------------------------------------------------------
(* Image.rotate(angle, expand=True) for the angles at which it transposes, *)
(* and Image.resize for a patch whose mask is constant.                    *)

RotateRect(r, w, h, angle) ==
    CASE angle = 0   -> r
      [] angle = 90  -> <<r[2], w - r[3], r[4], w - r[1]>>
      [] angle = 180 -> <<w - r[3], h - r[4], w - r[1], h - r[2]>>
      [] angle = 270 -> <<h - r[4], r[1], h - r[2], r[3]>>

RotateMask(mask, angle) ==
    LET a == angle % 360
    IN [w  |-> IF a \in {90, 270} THEN mask.h ELSE mask.w,
        h  |-> IF a \in {90, 270} THEN mask.w ELSE mask.h,
        fg |-> {RotateRect(r, mask.w, mask.h, a) : r \in mask.fg}]

RotateImage(image, angle) ==
    LET a == angle % 360
    IN [image EXCEPT !.w = IF a \in {90, 270} THEN image.h ELSE image.w,
                     !.h = IF a \in {90, 270} THEN image.w ELSE image.h]

\* int(dim * zoom_factor) for zoom_factor = num / 16 (exact in binary).
ZoomDim(dim, num) == (dim * num) \div 16

\* resize raises ValueError for a size with a zero side; the except: pass
\* leaves image and mask as they were.
ResizeMask(mask, num) ==
    LET nw == ZoomDim(mask.w, num)
        nh == ZoomDim(mask.h, num)
    IN CASE nw <= 0 \/ nh <= 0 -> mask
         [] nw > 0 /\ nh > 0 /\ mask.fg = {} -> [w |-> nw, h |-> nh, fg |-> {}]
         [] nw > 0 /\ nh > 0 /\ mask.fg = {<<0, 0, mask.w, mask.h>>} ->
                [w |-> nw, h |-> nh, fg |-> {<<0, 0, nw, nh>>}]

ResizeImage(image, num) ==
    LET nw == ZoomDim(image.w, num)
        nh == ZoomDim(image.h, num)
    IN IF nw <= 0 \/ nh <= 0 THEN image ELSE [image EXCEPT !.w = nw, !.h = nh]

-----------------------------------------------------------------------------
(* paste_solar_panel.  d is the record of the random draws of one call:    *)
(* d.jitter the two randint(-25, 25), d.rot the randint(-10, 10),          *)
(* d.photo the photometric perturbations whose gates opened, d.zoom the    *)
(* zoom numerator (0 when the zoom gate stayed shut).                      *)

\* max(lo, min(p, hi - size)): "ensure the paste position is within the
\* bounding box".
ClampPaste(p, lo, hi, size) == Max2(lo, Min2(p, hi - size))

PasteAnchor(bounding_box, size, d) ==
    LET x_min == bounding_box[1]
        y_min == bounding_box[2]
        x_max == bounding_box[3]
        y_max == bounding_box[4]
        center_x == (x_max + x_min) \div 2
        center_y == (y_max + y_min) \div 2
        paste_x == (center_x - (size[1] \div 2)) + d.jitter[1]
        paste_y == (center_y - (size[2] \div 2)) + d.jitter[2]
    IN <<ClampPaste(paste_x, x_min, x_max, size[1]),
         ClampPaste(paste_y, y_min, y_max, size[2])>>

\* The patch after rotation, photometric perturbation and zoom.
ZoomPatch(image, mask, d) ==
    IF d.zoom = 0
    THEN [image |-> image, mask |-> mask]
    ELSE [image |-> ResizeImage(image, d.zoom), mask |-> ResizeMask(mask, d.zoom)]

PerturbPatch(cropped_image, cropped_mask, rotation, d) ==
    ZoomPatch([RotateImage(cropped_image, rotation) EXCEPT !.photo = d.photo],
              RotateMask(cropped_mask, rotation), d)

\* Image.paste(patch, (paste_x, paste_y), mask=patch_mask): the pixels under
\* the stencil, clipped to the canvas.
Stencil(canvas_w, canvas_h, patch_mask, anchor) ==
    Clip({Shift(r, anchor[1], anchor[2]) : r \in patch_mask.fg}, <<0, 0, canvas_w, canvas_h>>)

\* target_image.paste works in place on the image object it is given.
PasteInto(target_image, patch_image, stencil) ==
    IF stencil = {} THEN target_image
    ELSE [target_image EXCEPT !.layers =
            Append(@, [fg |-> stencil, tone |-> patch_image.tone, photo |-> patch_image.photo])]

Rotation(target_mask, cropped_mask, d) ==
    (find_angle(target_mask) - find_angle(cropped_mask)) + d.rot

\* A paste onto the target mask as it is, without target_mask_np.fill(0).
PasteAtUnfilled(target_image, target_mask, patch, anchor, stencil) ==
    [target_image |-> PasteInto(target_image, patch.image, stencil),
     target_mask  |-> [w |-> target_mask.w, h |-> target_mask.h,
                       fg |-> target_mask.fg \cup stencil],
     patch_mask   |-> patch.mask,
     paste_box    |-> <<anchor[1], anchor[2], anchor[1] + patch.mask.w, anchor[2] + patch.mask.h>>]

\* target_mask_np.fill(0), then the two pastes: the target mask holds the
\* stencil and nothing else.  patch_mask is the thresholded cropped_mask
\* that was pasted, paste_box the rectangle it was pasted on.
PasteAt(target_image, target_mask, patch, anchor, stencil) ==
    [target_image |-> PasteInto(target_image, patch.image, stencil),
     target_mask  |-> [w |-> target_mask.w, h |-> target_mask.h, fg |-> stencil],
     patch_mask   |-> patch.mask,
     paste_box    |-> <<anchor[1], anchor[2], anchor[1] + patch.mask.w, anchor[2] + patch.mask.h>>]

PastePatch(target_image, target_mask, patch, anchor) ==
    PasteAt(target_image, target_mask, patch, anchor,
            Stencil(target_mask.w, target_mask.h, patch.mask, anchor))

paste_solar_panel(target_image, target_mask, cropped_image, cropped_mask, target_bounding_box, d) ==
    PastePatch(target_image, target_mask,
               PerturbPatch(cropped_image, cropped_mask, Rotation(target_mask, cropped_mask, d), d),
               PasteAnchor(target_bounding_box, <<cropped_image.w, cropped_image.h>>, d))

-----------------------------------------------------------------------------
(* modify_images *)

MIN_PIXEL_COUNT == 1500

CropLo == 100

CropHi == 300

Border == 100

\* A slice bound of numpy: a negative index counts from the end.
SliceAt(k, n) == IF k < 0 THEN Max2(n + k, 0) ELSE Min2(k, n)

\* target_mask_np[0:y_min, :] = 0; [y_max:, :] = 0; [:, 0:x_min] = 0;
\* [:, x_max:] = 0: what is left of the mask.
KeepInsideBox(mask, bounding_box) ==
    LET x_lo == SliceAt(bounding_box[1], mask.w)
        y_lo == SliceAt(bounding_box[2], mask.h)
        x_hi == SliceAt(bounding_box[3], mask.w)
        y_hi == SliceAt(bounding_box[4], mask.h)
    IN [mask EXCEPT !.fg = Clip(mask.fg, <<x_lo, y_lo, x_hi, y_hi>>)]

\* crop((100, 100, 300, 300)) followed by ImageOps.expand(border=100).
CenterBox == <<CropLo, CropLo, CropHi, CropHi>>

CropAndPadMask(mask) ==
    LET side == (CropHi - CropLo) + 2 * Border
    IN [w |-> side, h |-> side,
        fg |-> {Shift(r, Border - CropLo, Border - CropLo) : r \in Clip(mask.fg, CenterBox)}]

CropAndPadImage(image) ==
    LET side == (CropHi - CropLo) + 2 * Border
        cut(l) == [l EXCEPT !.fg = {Shift(r, Border - CropLo, Border - CropLo) : r \in Clip(l.fg, CenterBox)}]
    IN [w |-> side, h |-> side, base |-> image.base, padded |-> TRUE,
        layers |-> [k \in 1..Len(image.layers) |-> cut(image.layers[k])]]

NoResult == [w |-> 0, h |-> 0, fg |-> {}]

\* The result of a call: what was raised, the returned pair, the placement
\* box and paste box it used, the target mask array as the zeroing outside
\* the placement box leaves it, and the caller's four argument objects as
\* the call leaves them.
Raised(what, source_image, source_mask, target_image, target_mask) ==
    [raised |-> what, image |-> NoResult, mask |-> NoResult,
     bounding_box |-> <<0, 0, 0, 0>>, paste_box |-> <<0, 0, 0, 0>>,
     patch_mask |-> NoResult, boxed_mask |-> NoResult,
     args |-> <<source_image, source_mask, target_image, target_mask>>]

Returned(source_image, source_mask, target_mask, bounding_box, pasted) ==
    [raised |-> "none",
     image  |-> CropAndPadImage(pasted.target_image),
     mask   |-> CropAndPadMask(pasted.target_mask),
     bounding_box |-> bounding_box,
     paste_box |-> pasted.paste_box,
     patch_mask |-> pasted.patch_mask,
     boxed_mask |-> KeepInsideBox(target_mask, bounding_box),
     args |-> <<source_image, source_mask, pasted.target_image, target_mask>>]

PasteCropped(source_image, source_mask, target_image, target_mask, bounding_box, cropped, d) ==
    Returned(source_image, source_mask, target_mask, bounding_box,
             paste_solar_panel(target_image, KeepInsideBox(target_mask, bounding_box),
                               cropped.image, cropped.mask, bounding_box, d))

Placed(source_image, source_mask, target_image, target_mask, found, d) ==
    IF found.raised # "none"
    THEN Raised("EmptyChoice", source_image, source_mask, target_image, target_mask)
    ELSE PasteCropped(source_image, source_mask, target_image, target_mask,
                      found.bounding_box, crop_solar_panel(source_image, source_mask), d)

\* modify_images without its test of the target mask.
ModifyImagesUnguarded(source_image, source_mask, target_image, target_mask, d) ==
    Placed(source_image, source_mask, target_image, target_mask,
           find_random_white_patch(target_mask, MIN_PIXEL_COUNT, d), d)

modify_images(source_image, source_mask, target_image, target_mask, d) ==
    IF target_mask.fg = {}
    THEN Raised("EmptyTarget", source_image, source_mask, target_image, target_mask)
    ELSE Placed(source_image, source_mask, target_image, target_mask,
                find_random_white_patch(target_mask, MIN_PIXEL_COUNT, d), d)

-----------------------------------------------------------------------------
(* The directories the processor is built from.  A path is <<directory,    *)
(* stem>>; the image and the mask of a sample share their file name.  All  *)
(* files are 400x400.  A file is described by the set of its pixels that   *)
(* are not black, which is what convert("L") followed by "> 0" sees.       *)

MaxSolar == 4

MaxBuild == 3

MaxFactorHalves == 3

CanvasSide == 400

\* Foregrounds of the masks of the solar samples (panel annotations), in
\* directory order; longer directories repeat them.
SolarCatalogue ==
    << {<<10, 10, 12, 211>>},
       {<<100, 100, 181, 226>>},
       {<<100, 100, 174, 238>>},
       {},
       {<<50, 50, 61, 71>>},
       {<<20, 20, 51, 81>>, <<200, 200, 210, 210>>},
       {<<50, 50, 111, 81>>},
       {<<10, 10, 21, 31>>, <<50, 50, 61, 71>>},
       {<<10, 10, 15, 20>>, <<50, 50, 71, 91>>} >>

SolarFg(i) == SolarCatalogue[((i - 1) % Len(SolarCatalogue)) + 1]

\* Foregrounds of the masks of the building samples (roof annotations).
BuildingCatalogue ==
    << {<<180, 100, 220, 300>>},
       {<<110, 110, 150, 190>>, <<220, 120, 260, 280>>},
       {},
       {<<120, 120, 140, 150>>, <<200, 200, 230, 240>>},
       {<<110, 110, 150, 190>>, <<200, 200, 210, 220>>},
       {<<100, 180, 300, 220>>} >>

BuildingFg(j) == BuildingCatalogue[((j - 1) % Len(BuildingCatalogue)) + 1]

\* The pixels of building image j that are not black: the tile shows the
\* roofs its mask annotates on a black ground.
BuildingLit(j) == BuildingFg(j)

NonBlack(path) ==
    CASE path[1] = "images_positive" -> {<<0, 0, CanvasSide, CanvasSide>>}
      [] path[1] = "masks_positive"  -> SolarFg(path[2])
      [] path[1] = "images_negative" -> BuildingLit(path[2])
      [] path[1] = "masks_negative"  -> BuildingFg(path[2])

\* Image.open(path).convert("RGB")
OpenRGB(path) == [w |-> CanvasSide, h |-> CanvasSide, base |-> path, padded |-> FALSE, layers |-> <<>>]

\* Image.open(path).convert("L")
OpenL(path) == [w |-> CanvasSide, h |-> CanvasSide, fg |-> NonBlack(path)]

-----------------------------------------------------------------------------
(* ImageProcessor.__init__: the four file lists, from directories holding  *)
(* e.nsolar solar samples and e.nbuild building samples.                   *)

building_image_files(e) == [k \in 1..e.nbuild |-> <<"images_negative", k>>]

\* The mask names are joined with building_image_dir.
building_mask_files(e) == [k \in 1..e.nbuild |-> <<"images_negative", k>>]

solar_image_files(e) == [k \in 1..e.nsolar |-> <<"images_positive", k>>]

solar_mask_files(e) == [k \in 1..e.nsolar |-> <<"masks_positive", k>>]

-----------------------------------------------------------------------------
(* The random draws of one iteration. *)

CenterDraws == {<<0, 0>>, <<100, 30>>, <<100, 31>>, <<100, 100>>, <<200, 200>>}

PickDraws == {0, 1}

JitterDraws == {<<0, 0>>, <<25, -25>>}

RotDraws == {0}

PhotoDraws == {{}, {"brightness", "blur"}}

ZoomDraws == {0, 14, 17}

\* The draws made with numpy's generator, and those made with random.
NumpyDraws == [pick : PickDraws]

RandomDraws == [center : CenterDraws, jitter : JitterDraws, rot : RotDraws,
                photo : PhotoDraws, zoom : ZoomDraws]

\* The draws one iteration of the batch is run with: those that differ from
\* the plain draw (centre of the range, no jitter, no perturbation) in at
\* most one respect, the centre moving along one axis only, the zoom only
\* enlarging, the colours untouched.
PlainDraw == [center |-> <<100, 100>>, jitter |-> <<0, 0>>, rot |-> 0, photo |-> {}, zoom |-> 0]

LoopDraws ==
    {r \in RandomDraws :
        /\ Cardinality({f \in {"center", "jitter", "rot", "photo", "zoom"} :
                           r[f] # PlainDraw[f]}) <= 1
        /\ r.center[1] = PlainDraw.center[1]
        /\ r.photo = PlainDraw.photo
        /\ r.zoom # 14}

Draw(r, n) == [center |-> r.center, jitter |-> r.jitter, rot |-> r.rot,
               photo |-> r.photo, zoom |-> r.zoom, pick |-> n.pick]

\* The draws of both generators in one iteration of the batch: numpy's
\* choice varies where the draws of random are plain.
BatchDraws ==
    {Draw(r, n) : r \in LoopDraws, n \in {m \in NumpyDraws : m.pick = 0}}
    \cup {Draw(PlainDraw, n) : n \in NumpyDraws}

-----------------------------------------------------------------------------
(* ImageProcessor.process_sample_images *)

\* list.pop(index), with indices counted from 1.
PopNothing(list, index) == list

Pop(list, index) ==
    [k \in 1..(Len(list) - 1) |-> IF k < index THEN list[k] ELSE list[k + 1]]

\* si and bi are the values of the two random.randint(0, len - 1); an empty
\* list makes randint raise ValueError.  The four pops follow modify_images,
\* so a call that raises leaves the lists as they were.
Sampled(solar, solar_m, building, building_m, si, bi, res) ==
    IF res.raised # "none"
    THEN [raised |-> res.raised, whites |-> 0, result |-> res,
          drawn |-> <<solar[si], solar_m[si], building[bi], building_m[bi]>>,
          solar |-> solar, solar_m |-> solar_m,
          building |-> building, building_m |-> building_m]
    ELSE [raised |-> "none", whites |-> CountWhite(res.mask), result |-> res,
          drawn |-> <<solar[si], solar_m[si], building[bi], building_m[bi]>>,
          solar |-> Pop(solar, si), solar_m |-> Pop(solar_m, si),
          building |-> Pop(building, bi), building_m |-> Pop(building_m, bi)]

process_sample_images(solar, solar_m, building, building_m, si, bi, d) ==
    IF Len(solar) = 0 \/ Len(building) = 0
    THEN [raised |-> "EmptyRange", whites |-> 0, result |-> NoResult,
          drawn |-> <<>>,
          solar |-> solar, solar_m |-> solar_m, building |-> building, building_m |-> building_m]
    ELSE Sampled(solar, solar_m, building, building_m, si, bi,
                 modify_images(OpenRGB(solar[si]), OpenL(solar_m[si]),
                               OpenRGB(building[bi]), OpenL(building_m[bi]), d))

-----------------------------------------------------------------------------
(* ImageProcessor.process_all_images *)

min_white_pixels == 200

max_white_pixels == 10000

\* The window with its two bounds excluded.
AcceptsStrict(num_white_pixels) ==
    min_white_pixels < num_white_pixels /\ num_white_pixels < max_white_pixels

\* if min_white_pixels <= num_white_pixels <= max_white_pixels
Accepts(num_white_pixels) ==
    min_white_pixels <= num_white_pixels /\ num_white_pixels <= max_white_pixels

\* A reset that does not wait for the list to be empty.
RefillEarly(pool, paired, files) == IF Len(pool) <= 1 THEN files ELSE paired

\* if not pool: pool = self.files.copy(); paired = self.paired_files.copy()
\* The test is on the list of images; the list of masks is reset with it.
Refill(pool, paired, files) == IF Len(pool) = 0 THEN files ELSE paired

\* A counter that advances in every iteration.
NextCounterAlways(n, save) == n + 1

\* counter += 1, inside the if of the window.
NextCounter(n, save) == IF save THEN n + 1 ELSE n

\* math.ceil(len(solar_images) * factor) for factor = halves / 2.
NumberGenerated(n, halves) == ((n * halves) + 1) \div 2

NoLast ==
    [raised |-> "none", whites |-> 0, drawn |-> <<>>, saved |-> {},
     start_solar |-> <<>>, draw_solar |-> <<>>,
     start_building |-> <<>>, draw_building |-> <<>>]

NoHist ==
    [solar |-> {}, solar_n |-> 0, solar_closed |-> 0,
     building |-> {}, building_n |-> 0, building_closed |-> 0, in_window |-> 0,
     edge |-> {}]

\* The history of a pool's refill cycle after one more draw: the entries
\* drawn since the last refill, their number, and the number of draws of the
\* cycle that the last refill closed; the number of results inside the window
\* of 200 to 10000 white pixels, and the counts at the edges of the window
\* that results have had.
DrawnSet(old, refilled, entry) == (IF refilled THEN {} ELSE old) \cup {entry}

DrawnCount(old, refilled) == (IF refilled THEN 0 ELSE old) + 1

\* The body of the for loop after the call of process_sample_images, which
\* returned got: the count, the test of the window, the save.
Saves(got) == got.raised = "none" /\ Accepts(got.whites)

AfterSample(st, solar, solar_m, building, building_m, got, save, ref_s, ref_b) ==
    [pc              |-> IF got.raised = "none" THEN "loop" ELSE "aborted",
     solar_images    |-> got.solar,
     solar_masks     |-> got.solar_m,
     building_images |-> got.building,
     building_masks  |-> got.building_m,
     iter            |-> st.iter + 1,
     counter         |-> NextCounter(st.counter, save),
     out_images      |-> IF save THEN st.out_images \cup {st.counter} ELSE st.out_images,
     out_masks       |-> IF save THEN st.out_masks \cup {st.counter} ELSE st.out_masks,
     last |-> [raised |-> got.raised, whites |-> got.whites, drawn |-> got.drawn,
               saved |-> IF save THEN {st.counter} ELSE {},
               start_solar |-> <<st.solar_images, st.solar_masks>>,
               draw_solar |-> <<solar, solar_m>>,
               start_building |-> <<st.building_images, st.building_masks>>,
               draw_building |-> <<building, building_m>>],
     hist |-> IF got.raised = "EmptyRange" THEN st.hist
              ELSE [solar      |-> DrawnSet(st.hist.solar, ref_s, <<got.drawn[1], got.drawn[2]>>),
                    solar_n    |-> DrawnCount(st.hist.solar_n, ref_s),
                    solar_closed |-> IF ref_s THEN st.hist.solar_n ELSE st.hist.solar_closed,
                    building   |-> DrawnSet(st.hist.building, ref_b, <<got.drawn[3], got.drawn[4]>>),
                    building_n |-> DrawnCount(st.hist.building_n, ref_b),
                    building_closed |-> IF ref_b THEN st.hist.building_n ELSE st.hist.building_closed,
                    in_window  |-> st.hist.in_window
                                   + (IF got.raised = "none" /\ got.whites >= 200 /\ got.whites <= 10000
                                      THEN 1 ELSE 0),
                    edge       |-> st.hist.edge
                                   \cup (IF got.raised = "none"
                                         THEN {got.whites} \cap {199, 200, 10000, 10001}
                                         ELSE {})],
     result |-> got.result]

AfterCall(st, solar, solar_m, building, building_m, got) ==
    AfterSample(st, solar, solar_m, building, building_m, got, Saves(got),
                <<solar, solar_m>> # <<st.solar_images, st.solar_masks>>,
                <<building, building_m>> # <<st.building_images, st.building_masks>>)

AfterRefill(st, solar, solar_m, building, building_m, si, bi, d) ==
    AfterCall(st, solar, solar_m, building, building_m,
              process_sample_images(solar, solar_m, building, building_m, si, bi, d))

\* One pass through the body of the for loop, from the state st of the
\* method's local variables.
LoopBody(e, st, si, bi, d) ==
    AfterRefill(st,
                Refill(st.solar_images, st.solar_images, solar_image_files(e)),
                Refill(st.solar_images, st.solar_masks, solar_mask_files(e)),
                Refill(st.building_images, st.building_images, building_image_files(e)),
                Refill(st.building_images, st.building_masks, building_mask_files(e)),
                si, bi, d)

-----------------------------------------------------------------------------
(* The batch run as a state machine. *)

Locals ==
    [pc |-> pc, solar_images |-> solar_images, solar_masks |-> solar_masks,
     building_images |-> building_images, building_masks |-> building_masks,
     iter |-> iter, counter |-> counter, out_images |-> out_images,
     out_masks |-> out_masks, last |-> last, hist |-> hist]

\* The values of factor, in halves.
Factors == 1..MaxFactorHalves

Envs == [nsolar : 1..MaxSolar, nbuild : 0..MaxBuild]

IdleCall == [fn |-> "none"]

IdleRun == [fn |-> "none"]

InitBatch ==
    /\ env \in Envs
    /\ pc = "init"
    /\ solar_images = <<>> /\ solar_masks = <<>>
    /\ building_images = <<>> /\ building_masks = <<>>
    /\ loops = 0 /\ iter = 0 /\ counter = 0
    /\ out_images = {} /\ out_masks = {}
    /\ last = NoLast /\ hist = NoHist

Init == InitBatch /\ call = IdleCall /\ runA = IdleRun /\ runB = IdleRun

\* process_all_images up to the for loop: copy the lists, fix the number of
\* iterations, set the counter to 1.
Start ==
    /\ pc = "init"
    /\ \E factor \in Factors :
          loops' = NumberGenerated(Len(solar_image_files(env)), factor)
    /\ solar_images' = solar_image_files(env)
    /\ solar_masks' = solar_mask_files(env)
    /\ building_images' = building_image_files(env)
    /\ building_masks' = building_mask_files(env)
    /\ counter' = 1
    /\ pc' = "loop"
    /\ UNCHANGED <<iter, out_images, out_masks, env, last, hist, call, runA, runB>>

\* One iteration of the for loop.  An exception raised inside it is caught
\* nowhere in process_all_images and ends the run.
Iterate ==
    /\ pc = "loop"
    /\ iter < loops
    /\ \E si \in 1..Max2(1, Len(Refill(solar_images, solar_images, solar_image_files(env)))),
          bi \in 1..Max2(1, Len(Refill(building_images, building_images,
                                       building_image_files(env)))),
          d \in BatchDraws :
          \E nx \in {LoopBody(env, Locals, si, bi, d)} :
             /\ pc' = nx.pc
             /\ solar_images' = nx.solar_images
             /\ solar_masks' = nx.solar_masks
             /\ building_images' = nx.building_images
             /\ building_masks' = nx.building_masks
             /\ iter' = nx.iter
             /\ counter' = nx.counter
             /\ out_images' = nx.out_images
             /\ out_masks' = nx.out_masks
             /\ last' = nx.last
             /\ hist' = nx.hist
    /\ UNCHANGED <<loops, env, call, runA, runB>>

\* The loop is exhausted: the success message is printed.
Finish ==
    /\ pc = "loop"
    /\ iter = loops
    /\ pc' = "done"
    /\ UNCHANGED <<solar_images, solar_masks, building_images, building_masks, loops,
                   iter, counter, out_images, out_masks, env, last, hist, call, runA, runB>>

Next == Start \/ Iterate \/ Finish

Spec == Init /\ [][Next]_vars

-----------------------------------------------------------------------------
(* Direct calls of find_random_white_patch and of modify_images, on inputs *)
(* drawn from the catalogues.                                              *)

BlankMask(w, h) == [w |-> w, h |-> h, fg |-> {}]

\* Masks whose foreground regions meet at a corner, along an edge, or both.
TouchingFg ==
    { {<<10, 10, 20, 20>>, <<20, 20, 30, 30>>},
      {<<20, 10, 30, 20>>, <<10, 20, 20, 30>>},
      {<<10, 10, 20, 20>>, <<20, 15, 30, 25>>},
      {<<10, 10, 20, 20>>, <<20, 20, 30, 30>>, <<30, 12, 40, 28>>},
      {<<1, 1, 2, 2>>, <<2, 2, 3, 3>>, <<3, 3, 4, 4>>, <<3, 1, 4, 2>>},
      {<<1, 1, 2, 2>>, <<2, 1, 3, 2>>, <<3, 2, 4, 3>>, <<1, 3, 2, 4>>} }

PatchInputs ==
    {OpenL(<<"masks_negative", j>>) : j \in 1..Len(BuildingCatalogue)}
    \cup {OpenL(<<"masks_positive", i>>) : i \in 1..Len(SolarCatalogue)}
    \cup {BlankMask(10, 10), BlankMask(300, 300), BlankMask(400, 300)}
    \cup {[BlankMask(40, 40) EXCEPT !.fg = fg] : fg \in TouchingFg}

\* The default of the parameter and the value modify_images passes.
MinPixelCounts == {200, MIN_PIXEL_COUNT}

InitCalls ==
    /\ env = [nsolar |-> 1, nbuild |-> 1]
    /\ pc = "init"
    /\ solar_images = <<>> /\ solar_masks = <<>>
    /\ building_images = <<>> /\ building_masks = <<>>
    /\ loops = 0 /\ iter = 0 /\ counter = 0
    /\ out_images = {} /\ out_masks = {}
    /\ last = NoLast /\ hist = NoHist
    /\ call = IdleCall /\ runA = IdleRun /\ runB = IdleRun

batchVars == <<pc, solar_images, solar_masks, building_images, building_masks, loops,
               iter, counter, out_images, out_masks, env, last, hist>>

CallFindRandomWhitePatch ==
    /\ call = IdleCall
    /\ \E mask \in PatchInputs, m \in MinPixelCounts, c \in CenterDraws, n \in NumpyDraws :
          call' = [fn |-> "find_random_white_patch", mask |-> mask, min_pixel_count |-> m,
                   center |-> c, pick |-> n.pick,
                   result |-> find_random_white_patch(mask, m, [center |-> c, pick |-> n.pick])]
    /\ UNCHANGED <<batchVars, runA, runB>>

CallModifyImages ==
    /\ call = IdleCall
    /\ \E i \in 1..Len(SolarCatalogue), j \in 1..Len(BuildingCatalogue),
          r \in RandomDraws, n \in NumpyDraws :
          call' = [fn |-> "modify_images",
                   args |-> <<OpenRGB(<<"images_positive", i>>), OpenL(<<"masks_positive", i>>),
                              OpenRGB(<<"images_negative", j>>), OpenL(<<"masks_negative", j>>)>>,
                   d |-> Draw(r, n),
                   result |-> modify_images(OpenRGB(<<"images_positive", i>>),
                                            OpenL(<<"masks_positive", i>>),
                                            OpenRGB(<<"images_negative", j>>),
                                            OpenL(<<"masks_negative", j>>), Draw(r, n))]
    /\ UNCHANGED <<batchVars, runA, runB>>

CallFindLargestWhitePatch ==
    /\ call = IdleCall
    /\ \E mask \in PatchInputs :
          call' = [fn |-> "find_largest_white_patch", mask |-> mask,
                   mask_labeled |-> ndi_label(mask),
                   result |-> find_largest_white_patch(mask)]
    /\ UNCHANGED <<batchVars, runA, runB>>

CallCropSolarPanel ==
    /\ call = IdleCall
    /\ \E i \in 1..Len(SolarCatalogue) :
          call' = [fn |-> "crop_solar_panel",
                   image |-> OpenRGB(<<"images_positive", i>>),
                   mask |-> OpenL(<<"masks_positive", i>>),
                   result |-> crop_solar_panel(OpenRGB(<<"images_positive", i>>),
                                               OpenL(<<"masks_positive", i>>))]
    /\ UNCHANGED <<batchVars, runA, runB>>

\* Masks for find_angle: none, one pixel, a square, an upright and a lying
\* rectangle.
AngleInputs ==
    {BlankMask(400, 400), BlankMask(1, 1),
     [w |-> 400, h |-> 400, fg |-> {<<7, 9, 8, 10>>}],
     [w |-> 400, h |-> 400, fg |-> {<<10, 10, 30, 30>>}],
     [w |-> 400, h |-> 400, fg |-> {<<10, 10, 30, 70>>}],
     [w |-> 400, h |-> 400, fg |-> {<<10, 10, 70, 30>>}]}

CallFindAngle ==
    /\ call = IdleCall
    /\ \E mask \in AngleInputs :
          call' = [fn |-> "find_angle", mask |-> mask,
                   result |-> [raised |-> "none", angle |-> find_angle(mask)]]
    /\ UNCHANGED <<batchVars, runA, runB>>

NextCalls ==
    \/ CallFindAngle
    \/ CallFindRandomWhitePatch
    \/ CallModifyImages
    \/ CallFindLargestWhitePatch
    \/ CallCropSolarPanel

SpecCalls == InitCalls /\ [][NextCalls]_vars

-----------------------------------------------------------------------------
(* Two runs of the script on the same directories.  Each run starts with   *)
(* random.seed(42), so the two runs get the same values from the module    *)
(* random; np.random.choice draws from numpy's generator, which the script *)
(* never seeds, so each run gets values of its own from it.                *)

LocalNames ==
    {"pc", "solar_images", "solar_masks", "building_images", "building_masks",
     "iter", "counter", "out_images", "out_masks", "last", "hist"}

\* The locals of process_all_images on entry to the for loop.
Started(e) ==
    [pc |-> "loop",
     solar_images |-> solar_image_files(e), solar_masks |-> solar_mask_files(e),
     building_images |-> building_image_files(e),
     building_masks |-> building_mask_files(e),
     iter |-> 0, counter |-> 1, out_images |-> {}, out_masks |-> {},
     last |-> NoLast, hist |-> NoHist]

RunStart(e, factor) ==
    [fn |-> "process_all_images",
     loops |-> NumberGenerated(Len(solar_image_files(e)), factor),
     st |-> Started(e), written |-> {}]

\* The run after one pass nx of the loop body: the locals, and what
\* image.save and mask.save wrote in that pass, as <<number, image, mask>>.
RunAfter(run, nx) ==
    [fn |-> run.fn, loops |-> run.loops,
     st |-> [k \in LocalNames |-> nx[k]],
     written |-> IF nx.last.saved = {} THEN {}
                 ELSE {<<run.st.counter, nx.result.image, nx.result.mask>>}]

RunStep(run, e, si, bi, d) == RunAfter(run, LoopBody(e, run.st, si, bi, d))

\* The values of random the two runs share in an iteration.
DetDraws == {r \in LoopDraws : r.center = PlainDraw.center /\ r.zoom = PlainDraw.zoom}

InitDet == InitBatch /\ call = IdleCall /\ runA = IdleRun /\ runB = IdleRun

StartDet ==
    /\ runA = IdleRun /\ runB = IdleRun
    /\ \E factor \in Factors :
          /\ runA' = RunStart(env, factor)
          /\ runB' = RunStart(env, factor)
    /\ UNCHANGED <<batchVars, call>>

\* The two runs take their next iteration: the same values of random, a
\* value of numpy's generator each.
IterateDet ==
    /\ runA # IdleRun /\ runB # IdleRun
    /\ runA.st.pc = "loop" /\ runB.st.pc = "loop"
    /\ runA.st.iter < runA.loops /\ runB.st.iter < runB.loops
    /\ \E si \in 1..Max2(1, Len(Refill(runA.st.solar_images, runA.st.solar_images,
                                       solar_image_files(env)))),
          bi \in 1..Max2(1, Len(Refill(runA.st.building_images, runA.st.building_images,
                                       building_image_files(env)))),
          r \in DetDraws, nA \in NumpyDraws, nB \in NumpyDraws :
             /\ runA' = RunStep(runA, env, si, bi, Draw(r, nA))
             /\ runB' = RunStep(runB, env, si, bi, Draw(r, nB))
    /\ UNCHANGED <<batchVars, call>>

FinishDet ==
    /\ runA # IdleRun /\ runB # IdleRun
    /\ runA.st.pc = "loop" /\ runB.st.pc = "loop"
    /\ runA.st.iter = runA.loops /\ runB.st.iter = runB.loops
    /\ runA' = [runA EXCEPT !.st.pc = "done"]
    /\ runB' = [runB EXCEPT !.st.pc = "done"]
    /\ UNCHANGED <<batchVars, call>>

NextDet == StartDet \/ IterateDet \/ FinishDet

SpecDet == InitDet /\ [][NextDet]_vars

-----------------------------------------------------------------------------
(* The value of one pixel of the mask on its way through paste_solar_panel *)
(* and the end of modify_images.  The sets of pixels above say where the   *)
(* foreground is; here a pixel has a value of 0..255.  Image.rotate and    *)
(* Image.resize with BICUBIC can leave any value in a pixel of the patch   *)
(* mask, so the value after them is an input.                              *)

PixelValues == 0..255

\* A patch mask left as rotate and resize made it.
KeepPixel(v) == v

\* np.where(cropped_mask > 50, 255, 0)
ThresholdPixel(v) == IF v > 50 THEN 255 ELSE 0

\* target_mask_np[target_mask_np > 0] = 255 in modify_images.
BinarizePixel(t) == IF t > 0 THEN 255 ELSE 0

\* target_mask_np.fill(0)
FillPixel(t) == 0

\* Image.paste(im, box, mask): under the patch, the value of the patch
\* weighted by the value of its mask over the value that was there;
\* elsewhere the value that was there.
PastePixel(dst, src, m, covered) ==
    IF covered THEN ((src * m) + (dst * (255 - m)) + 127) \div 255 ELSE dst

\* crop((100, 100, 300, 300)), then ImageOps.expand(border=100, fill='black').
CropPadPixel(t, central) == IF central THEN t ELSE 0

\* The pixel of the returned mask, from the value t of the pixel in the
\* target mask and the value v of the pixel of the patch mask that comes to
\* lie on it (if one does) after rotation and resize.
ReturnedPixel(t, v, covered, central) ==
    CropPadPixel(PastePixel(FillPixel(BinarizePixel(t)),
                            ThresholdPixel(v), ThresholdPixel(v), covered),
                 central)

CallMaskPixel ==
    /\ call = IdleCall
    /\ \E t \in PixelValues, v \in PixelValues, covered \in BOOLEAN, central \in BOOLEAN :
          call' = [fn |-> "mask_pixel", t |-> t, v |-> v,
                   covered |-> covered, central |-> central,
                   result |-> ReturnedPixel(t, v, covered, central)]
    /\ UNCHANGED <<batchVars, runA, runB>>

NextPixels == CallMaskPixel

SpecPixels == InitCalls /\ [][NextPixels]_vars

-----------------------------------------------------------------------------
(* What the claims speak of. *)

\* The components of a mask with at least n pixels.
Qualifying(mask, n) == {c \in ComponentSet(mask.fg) : Count(c) >= n}

\* A synthetic region: a centre inside the central 200x200 box of the mask
\* and the box of 30 pixels to each side of it.
IsFallbackRegion(mask, res) ==
    /\ res.center[1] \in ((mask.w \div 2) - 100)..((mask.w \div 2) + 100)
    /\ res.center[2] \in ((mask.h \div 2) - 100)..((mask.h \div 2) + 100)
    /\ res.bounding_box = <<res.center[1] - 30, res.center[2] - 30,
                            res.center[1] + 30, res.center[2] + 30>>

\* The centroid and bounding box of one of the given components.
IsRegionOf(comps, res) ==
    \E c \in comps : res.center = Centroid(c) /\ res.bounding_box = BoundingBox(c)

\* Number of pixels of a bounding box whose maxima are inclusive.
BoxArea(bb) == ((bb[3] - bb[1]) + 1) * ((bb[4] - bb[2]) + 1)

FoundCalled == call.fn = "find_random_white_patch"

ModifyReturned == call.fn = "modify_images" /\ call.result.raised = "none"

\* C1: when the compositor raises EmptyTargetError for a drawn pair, the
\* batch loop absorbs it: the run is not aborted, the counter keeps its
\* value, and the loop goes on to its configured number of iterations.
C1_EmptyTargetIsSkipped ==
    (iter > 0 /\ last.raised = "EmptyTarget") => pc \in {"loop", "done"}

\* C2: for every mask in which no component has min_pixel_count pixels
\* (no component, one component, several components),
\* find_random_white_patch returns the synthetic fallback region and raises
\* nothing.
C2_NoQualifyingGivesFallback ==
    (FoundCalled /\ Qualifying(call.mask, call.min_pixel_count) = {})
        => (call.result.raised = "none" /\ IsFallbackRegion(call.mask, call.result))

C4_WhiteWithinBoxArea ==
    ModifyReturned => CountWhite(call.result.mask) <= BoxArea(call.result.bounding_box)

\* C5: after modify_images returns, the caller's source image, source mask,
\* target image and target mask hold the pixel values they held before.
C5_ArgumentsUntouched ==
    ModifyReturned => call.result.args = call.args

\* C6 as claimed: two runs seeded alike on the same inputs write, in every
\* iteration, the same files with the same contents.
C6_SameSeedSameOutput ==
    (runA # IdleRun /\ runB # IdleRun)
        => (runA.written = runB.written /\ runA.st.counter = runB.st.counter)

\* C7: in each pool separately, the entries drawn since the pool's last
\* refill are pairwise different, and a refill comes only after every entry
\* of the source list has been drawn.
C7_DrawWithoutReplacement ==
    /\ Cardinality(hist.solar) = hist.solar_n
    /\ Cardinality(hist.building) = hist.building_n
    /\ hist.solar \subseteq
          {<<solar_image_files(env)[k], solar_mask_files(env)[k]>> : k \in 1..env.nsolar}
    /\ hist.building \subseteq
          {<<building_image_files(env)[k], building_mask_files(env)[k]>> : k \in 1..env.nbuild}
    /\ hist.solar_closed \in {0, env.nsolar}
    /\ hist.building_closed \in {0, env.nbuild}

\* Both pools have been refilled, each after a full cycle of its own length,
\* and the source pool is two draws into its second cycle.
C7_Witness ==
    /\ hist.solar_closed >= 2
    /\ hist.solar_n >= 2
    /\ hist.building_closed >= 2
    /\ hist.building_closed # hist.solar_closed

\* C8: in every iteration a pool found empty is reset to the whole source
\* list and a pool found non-empty is left as it is; a draw from a non-empty
\* source list is made from a non-empty pool, and the draw takes one entry
\* out of each pool without refilling it.
C8_RefillExactlyWhenEmpty ==
    iter > 0 =>
       /\ last.draw_solar =
             IF last.start_solar[1] = <<>>
             THEN <<solar_image_files(env), solar_mask_files(env)>>
             ELSE last.start_solar
       /\ last.draw_building =
             IF last.start_building[1] = <<>>
             THEN <<building_image_files(env), building_mask_files(env)>>
             ELSE last.start_building
       /\ (env.nsolar > 0 => Len(last.draw_solar[1]) > 0)
       /\ (env.nbuild > 0 => Len(last.draw_building[1]) > 0)
       /\ (last.raised = "none" =>
              /\ Len(solar_images) = Len(last.draw_solar[1]) - 1
              /\ Len(building_images) = Len(last.draw_building[1]) - 1)

\* An iteration that found the source pool empty and the target pool not,
\* reset the first to its source list of several entries, and drew.
C8_Witness ==
    /\ iter > 0
    /\ last.raised = "none"
    /\ last.start_solar[1] = <<>>
    /\ Len(last.draw_solar[1]) >= 2
    /\ last.start_building[1] # <<>>
    /\ last.draw_building = last.start_building

\* C9: once the loop has been entered the counter is 1 plus the number of
\* results inside the window so far, the image files and the mask files
\* written are exactly 1.png .. k.png for that number k, and k is at most
\* the number of iterations made.
C9_CounterAndFiles ==
    pc # "init" =>
       /\ counter = 1 + hist.in_window
       /\ out_images = 1..hist.in_window
       /\ out_masks = 1..hist.in_window
       /\ hist.in_window <= iter
       /\ iter <= loops

\* Two results were saved and one, not the last, was discarded.
C9_Witness ==
    /\ hist.in_window = 2
    /\ iter = 3
    /\ last.saved = {2}
    /\ out_images = {1, 2}

\* C10: the result of an iteration is saved exactly when its mask has at
\* least 200 and at most 10000 pixels of value 255.
C10_SavedIffInWindow ==
    iter > 0 =>
       /\ (last.saved # {} <=>
              (last.raised = "none" /\ 200 <= last.whites /\ last.whites <= 10000))
       /\ (last.raised = "none" /\ last.whites \in {199, 10001} => last.saved = {})
       /\ (last.raised = "none" /\ last.whites \in {200, 10000} => last.saved # {})

\* One run has had results of 199, 200, 10000 and 10001 white pixels, the
\* last of them a result of exactly 10000 that was saved.
C10_Witness ==
    /\ hist.edge = {199, 200, 10000, 10001}
    /\ last.whites = 10000
    /\ last.saved # {}

ModifyCalled == call.fn = "modify_images"

\* C11: modify_images raises for every target mask without foreground, and
\* then has selected no placement region and left its four arguments as
\* they were; it raises this error for no other target mask.
C11_EmptyTargetRaises ==
    ModifyCalled =>
       /\ (call.args[4].fg = {} <=> call.result.raised = "EmptyTarget")
       /\ (call.args[4].fg = {} =>
              /\ call.result.args = call.args
              /\ call.result.bounding_box = <<0, 0, 0, 0>>
              /\ call.result.image = NoResult
              /\ call.result.mask = NoResult)

\* A call with an empty target mask and a source that has a panel.
C11_Witness ==
    /\ ModifyCalled
    /\ call.args[4].fg = {}
    /\ call.args[2].fg # {}
    /\ call.result.raised = "EmptyTarget"

\* C12 as claimed: an iteration whose call of modify_images raised for an
\* empty target mask has taken the drawn entries out of both pools and left
\* the counter as it was.
C12_RaisedDrawStillConsumes ==
    (iter > 0 /\ last.raised = "EmptyTarget") =>
       /\ Len(solar_images) = Len(last.draw_solar[1]) - 1
       /\ Len(building_images) = Len(last.draw_building[1]) - 1
       /\ last.saved = {}

LargestCalled == call.fn = "find_largest_white_patch"

CropCalled == call.fn = "crop_solar_panel"

\* Label k holds a component of maximal size, and no lower label does.
IsFirstLargest(labeled, k) ==
    /\ k \in 1..Len(labeled)
    /\ \A j \in 1..Len(labeled) :
          /\ Count(labeled[j]) <= Count(labeled[k])
          /\ (Count(labeled[j]) = Count(labeled[k]) => k <= j)

\* C13: on a mask with foreground, find_largest_white_patch and the
\* selection inside crop_solar_panel take a component at least as large as
\* every other, the one with the lowest label among those of maximal size.
C13_LargestLowestLabel ==
    /\ (LargestCalled /\ call.mask.fg # {}) =>
          /\ call.result.raised = "none"
          /\ IsFirstLargest(ndi_label(call.mask), call.result.largest_patch)
          /\ call.result.center = Centroid(ndi_label(call.mask)[call.result.largest_patch])
          /\ call.result.bounding_box
                = BoundingBox(ndi_label(call.mask)[call.result.largest_patch])
    /\ (CropCalled /\ call.mask.fg # {}) =>
          \E k \in 1..Len(ndi_label(call.mask)) :
             /\ IsFirstLargest(ndi_label(call.mask), k)
             /\ call.result = CropLargest(call.image, ndi_label(call.mask)[k])

\* A call on a mask with two components of the same size.
C13_Witness ==
    /\ LargestCalled
    /\ Len(ndi_label(call.mask)) = 2
    /\ Count(ndi_label(call.mask)[1]) = Count(ndi_label(call.mask)[2])
    /\ call.result.largest_patch = 1

\* C14 as claimed: for a mask without foreground, of any size,
\* find_random_white_patch returns a centre inside the central 200x200 box
\* of the mask and inside the mask itself, with the bounding box of 30
\* pixels to each side of the centre.
C14_FallbackCenterInsideMask ==
    (FoundCalled /\ call.mask.fg = {}) =>
       /\ call.result.raised = "none"
       /\ call.result.center[1] \in Max2(0, (call.mask.w \div 2) - 100)
                                      ..Min2(call.mask.w - 1, (call.mask.w \div 2) + 100)
       /\ call.result.center[2] \in Max2(0, (call.mask.h \div 2) - 100)
                                      ..Min2(call.mask.h - 1, (call.mask.h \div 2) + 100)
       /\ call.result.bounding_box
             = <<call.result.center[1] - 30, call.result.center[2] - 30,
                 call.result.center[1] + 30, call.result.center[2] + 30>>

\* C15 as claimed: find_angle raises nothing, and returns 0 for a mask with
\* no foreground pixel and for a mask with exactly one.
C15_DegenerateAngleIsZero ==
    call.fn = "find_angle" =>
       /\ call.result.raised = "none"
       /\ (CountWhite(call.mask) <= 1 => call.result.angle = 0)

\* C16 as claimed: with a source mask without foreground and a target mask
\* with some, crop_solar_panel gives the 1x1 placeholder, modify_images
\* returns without raising, the returned image has no pasted pixel, the
\* returned mask no foreground, and the window of 200 to 10000 rejects it.
C16_EmptyPatchIsNoOp ==
    (ModifyCalled /\ call.args[2].fg = {} /\ call.args[4].fg # {}) =>
       /\ crop_solar_panel(call.args[1], call.args[2]) = EmptyPatch
       /\ call.result.raised = "none"
       /\ call.result.image.layers = <<>>
       /\ call.result.mask.fg = {}
       /\ ~Accepts(CountWhite(call.result.mask))

\* C17: every pixel of the mask modify_images returns is 0 or 255, whatever
\* value the target mask had there and whatever value rotation and resize
\* left in the pixel of the patch mask that was pasted on it.
C17_ReturnedMaskIsBinary ==
    call.fn = "mask_pixel" => call.result \in {0, 255}

\* A pixel in the central region, under the patch, whose patch-mask value
\* was a grey just above the threshold and whose target value was a grey.
C17_Witness ==
    /\ call.fn = "mask_pixel"
    /\ call.covered /\ call.central
    /\ call.v = 51
    /\ call.t = 128
    /\ call.result = 255

\* A rectangle with exclusive maxima lies inside a bounding box with
\* inclusive maxima.
InsideBox(r, bb) ==
    /\ bb[1] <= r[1] /\ bb[2] <= r[2]
    /\ r[3] - 1 <= bb[3] /\ r[4] - 1 <= bb[4]

\* C18 as claimed: the rectangle modify_images pastes, the anchor with the
\* width and height the patch has when it is pasted, lies inside the
\* placement bounding box, and so does every foreground pixel of the
\* returned mask.
C18_PasteInsidePlacementBox ==
    ModifyReturned =>
       /\ InsideBox(call.result.paste_box, call.result.bounding_box)
       /\ \A r \in call.result.mask.fg : InsideBox(r, call.result.bounding_box)

\* C19 as claimed: for a mask with foreground, the patch crop_solar_panel
\* returns has as many rows and columns as the bounding box of the largest
\* component (maxima included), its mask holds exactly the pixels of that
\* component, and its image has the size of its mask.
C19_CropCoversBoundingBox ==
    (CropCalled /\ call.mask.fg # {}) =>
       LET largest_cc == LargestComponent(ndi_label(call.mask))
           bb == BoundingBox(largest_cc)
       IN /\ call.result.mask.w = (bb[3] - bb[1]) + 1
          /\ call.result.mask.h = (bb[4] - bb[2]) + 1
          /\ call.result.mask.fg = {Shift(q, -bb[1], -bb[2]) : q \in largest_cc}
          /\ call.result.image.w = call.result.mask.w
          /\ call.result.image.h = call.result.mask.h

\* Rectangle r lies inside rectangle q, both with exclusive maxima.
Within(r, q) == q[1] <= r[1] /\ q[2] <= r[2] /\ r[3] <= q[3] /\ r[4] <= q[4]

\* C20: every foreground pixel of the mask modify_images returns lies under
\* a foreground pixel of the pasted patch mask placed at the paste anchor,
\* and inside the central 200x200 region; foreground of the target mask that
\* the patch does not cover is gone.
C20_MaskHoldsOnlyThePatch ==
    ModifyReturned =>
       \A r \in call.result.mask.fg :
          /\ Within(r, <<100, 100, 300, 300>>)
          /\ \E q \in call.result.patch_mask.fg :
                Within(r, Shift(q, call.result.paste_box[1], call.result.paste_box[2]))

\* A call that pasted a patch on a roof and returned a mask in which part of
\* the roof inside the central region is background.
C20_Witness ==
    /\ ModifyReturned
    /\ call.result.mask.fg # {}
    /\ \E t \in Clip(call.args[4].fg, <<100, 100, 300, 300>>) :
          \A r \in call.result.mask.fg : ~Within(t, r)

\* The placement box with its own last row and column counted in, as a
\* half-open rectangle.
BoxInclusive(bb) == <<bb[1], bb[2], bb[3] + 1, bb[4] + 1>>

\* C21 as claimed: after the zeroing outside the placement box, every pixel
\* of the target mask whose column is in [x_min, x_max] and whose row is in
\* [y_min, y_max], the extreme row and column of the box included, keeps its
\* binarized value, and every other pixel is 0.
C21_BoxPixelsKept ==
    ModifyReturned =>
       call.result.boxed_mask.fg =
          Clip(call.result.args[4].fg, BoxInclusive(call.result.bounding_box))

\* Some pixel of r and some pixel of s are neighbours: along an edge, or,
\* with diag, along an edge or at a corner.
Touch(r, s, diag) ==
    \E x \in r[1]..(r[3] - 1), y \in r[2]..(r[4] - 1) :
       \E dx \in {-1, 0, 1}, dy \in {-1, 0, 1} :
          /\ <<dx, dy>> # <<0, 0>>
          /\ diag \/ dx = 0 \/ dy = 0
          /\ s[1] <= x + dx /\ x + dx < s[3]
          /\ s[2] <= y + dy /\ y + dy < s[4]

\* The regions of fg joined to seed by a path of neighbouring pixels.
RECURSIVE Reach(_, _, _)
Reach(seed, fg, diag) ==
    LET nxt == seed \cup {r \in fg : \E s \in seed : Touch(s, r, diag)}
    IN IF nxt = seed THEN seed ELSE Reach(nxt, fg, diag)

\* Labelling as ndi.label leaves it: every foreground region has exactly one
\* positive label, a label holds foreground only, and a mask without
\* foreground has no label.
LabelsCoverForeground ==
    /\ \A r \in call.mask.fg :
          Cardinality({k \in 1..Len(call.mask_labeled) : r \in call.mask_labeled[k]}) = 1
    /\ \A k \in 1..Len(call.mask_labeled) :
          call.mask_labeled[k] # {} /\ call.mask_labeled[k] \subseteq call.mask.fg
    /\ (call.mask.fg = {}) => Len(call.mask_labeled) = 0

SameLabel(r, s) ==
    \E k \in 1..Len(call.mask_labeled) : r \in call.mask_labeled[k] /\ s \in call.mask_labeled[k]

\* C22 as claimed: labelling uses 8-connectivity: two foreground pixels get
\* the same positive label exactly when a path of foreground pixels joins
\* them in which consecutive pixels are edge or corner neighbours; background
\* keeps label 0 and a mask without foreground has count 0.
C22_LabelIsEightConnected ==
    LargestCalled =>
       /\ LabelsCoverForeground
       /\ \A r, s \in call.mask.fg : SameLabel(r, s) <=> s \in Reach({r}, call.mask.fg, TRUE)

\* C22: labelling uses 4-connectivity: two foreground pixels get the same
\* positive label exactly when a path of foreground pixels joins them in
\* which consecutive pixels share an edge, so pixels that touch only at a
\* corner get different labels unless such a path joins them; background
\* keeps label 0 and a mask without foreground has count 0.
C22_LabelIsFourConnected ==
    LargestCalled =>
       /\ LabelsCoverForeground
       /\ \A r, s \in call.mask.fg : SameLabel(r, s) <=> s \in Reach({r}, call.mask.fg, FALSE)

\* A labelled mask in which two regions touch only at a corner and have
\* different labels, and two regions joined along an edge share one.
C22_Witness ==
    /\ LargestCalled
    /\ \E r, s \in call.mask.fg :
          Touch(r, s, TRUE) /\ ~SameLabel(r, s)
    /\ \E r, s \in call.mask.fg :
          r # s /\ Touch(r, s, FALSE) /\ SameLabel(r, s)

\* Two lists of a pool hold, index by index, the files of one sample.
Paired(images, masks) ==
    /\ Len(images) = Len(masks)
    /\ \A k \in 1..Len(images) : images[k][2] = masks[k][2]

\* C23 as claimed: in every state of process_all_images the image list and
\* the mask list of each pool have the same length and hold the same sample
\* at each index, and every mask path of the target pool names a file of the
\* scene mask directory, not of the scene image directory.
C23_PoolsPairedAndMasksFromMaskDir ==
    (pc \in {"loop", "done"}) =>
       /\ Paired(solar_images, solar_masks)
       /\ Paired(building_images, building_masks)
       /\ \A k \in 1..Len(building_masks) : building_masks[k][1] = "masks_negative"

====
